---- MODULE Spec2Model ----
(***************************************************************************)
(* A model of asha's disassembly-to-pseudocode pipeline                    *)
(* (src/src/disassembly.rs, src/src/decompilation.rs).                     *)
(*                                                                         *)
(* Three specifications share the variables:                               *)
(*   Spec       the pipeline on a program: generate_sections,              *)
(*              build_abstract_graph, the reduction loop of                *)
(*              iterated_cfg_reduction, high_level_conversion;             *)
(*   SpecGraph  the reduction loop and traverse() on an abstract graph     *)
(*              that was built directly, as the unit tests build theirs;   *)
(*   SpecDecode disassemble on one instruction word.                       *)
(*                                                                         *)
(* A Rust panic (a failed unwrap, an out-of-range index) is the state      *)
(* pc = "panic" with the panicking place in panicked.                      *)
(***************************************************************************)
EXTENDS Integers, Sequences, FiniteSets, TLC

VARIABLES
    pc,         \* position of the pipeline
    prog,       \* BTreeMap<u64, InstructionType>, as its ascending sequence of entries
    sections,   \* Vec<InstructionSection> / SectionMap, block id i at index i+1
    vertices,   \* AbstractGraph.vertices: id -> AbstractSection
    edges,      \* AbstractGraph.edges: Vec<(usize, usize)>
    passes,     \* iterations of the reduction loop run so far
    rewrites,   \* iterations in which a r_ function returned true
    lastRule,   \* what the last iteration did
    origin,     \* what the abstract graph was built from
    initial,    \* number of vertices of the abstract graph when it was built
    panicked,   \* the place of the panic, "" when none
    order,      \* the last result of traverse().collect()
    output,     \* Vec<String> of high_level_conversion, as tokens
    word,       \* the instruction word given to disassemble, as <<high half, low half>>
    decoded     \* the result of disassemble

vars == <<pc, prog, sections, vertices, edges, passes, rewrites, lastRule,
          origin, initial, panicked, order, output, word, decoded>>

----------------------------------------------------------------------------
(* Sequence helpers *)

Last(s) == s[Len(s)]

Front(s) == SubSeq(s, 1, Len(s) - 1)

Range(s) == {s[i] : i \in 1..Len(s)}

Min(S) == CHOOSE x \in S : \A y \in S : x <= y

RECURSIVE Ascending(_)
\* the members of a finite set of integers in ascending order
Ascending(S) == IF S = {} THEN << >>
                ELSE <<Min(S)>> \o Ascending(S \ {Min(S)})

\* Vec::remove(i), with i a 1-based index
RemoveAt(s, i) == SubSeq(s, 1, i - 1) \o SubSeq(s, i + 1, Len(s))

DedupCons(x, d) == IF x = d[1] THEN d ELSE <<x>> \o d

RECURSIVE Dedup(_)
\* Vec::dedup: of every run of equal consecutive elements the first is kept
Dedup(s) == IF Len(s) <= 1 THEN s ELSE DedupCons(s[1], Dedup(Tail(s)))

\* the first element of the sequence s that is in the set S, << >> when none
FirstIn(s, S) ==
    IF \E k \in 1..Len(s) : s[k] \in S
    THEN <<s[Min({k \in 1..Len(s) : s[k] \in S})]>>
    ELSE << >>

\* s without its element at the index hit[1]; s itself when hit is << >>
RemoveHit(s, hit) == IF hit = << >> THEN s ELSE RemoveAt(s, hit[1])

----------------------------------------------------------------------------
(* AbstractSection and AbstractGraph *)

AbstractSection(section_type, idx) ==
    [section_type |-> section_type, concrete_section |-> idx, abstract_sections |-> << >>]

\* nest_section were it to put the section in front
nest_section_front(node, section) ==
    [node EXCEPT !.abstract_sections = <<section>> \o @]

nest_section(node, section) ==
    [node EXCEPT !.abstract_sections = Append(@, section)]

set_type(node, section_type) ==
    IF section_type # "Unbranching"
    THEN [node EXCEPT !.section_type = section_type]
    ELSE node

\* indices (1-based, ascending) of the edges to, from, or at a vertex
get_edges(E, index, dir) ==
    Ascending({i \in 1..Len(E) :
        CASE dir = "Incoming" -> E[i][2] = index
          [] dir = "Outgoing" -> E[i][1] = index
          [] OTHER            -> E[i][1] = index \/ E[i][2] = index})

contains_edge(E, src, dst) == <<src, dst>> \in Range(E)

\* a graph value: ok = FALSE is a panic at the place named by why
Graph(V, E) == [ok |-> TRUE, vertices |-> V, edges |-> E, why |-> ""]

Panic(V, E, why) == [ok |-> FALSE, vertices |-> V, edges |-> E, why |-> why]

\* reduce_node, `for edge in get_edges(id, Outgoing)`: the outgoing edges of
\* the reduced node now start at the parent
RetargetOutgoing(E, id, parent_id) ==
    [i \in 1..Len(E) |-> IF E[i][1] = id THEN <<parent_id, E[i][2]>> ELSE E[i]]

\* reduce_node, `for edge in get_edges(id, Incoming)`: the first edge
\* parent -> id is deleted
RemoveParentEdge(E, id, parent_id) ==
    RemoveHit(E, FirstIn(get_edges(E, id, "Incoming"),
                         {i \in 1..Len(E) : E[i][1] = parent_id /\ E[i][2] = id}))

\* reduce_node were it to leave the self-edges of the parent
RemoveSelfEdgeNever(E, parent_id) == E

\* reduce_node, `for edge in get_edges(parent_id, Outgoing)`: the first
\* self-edge of the parent is deleted
RemoveSelfEdge(E, parent_id) ==
    RemoveHit(E, FirstIn(get_edges(E, parent_id, "Outgoing"),
                         {i \in 1..Len(E) : E[i][1] = E[i][2]}))

\* the vertex map were the section cloned into the parent and left in the map
AbsorbCloning(V, id, parent_id, section_type) ==
    [v \in DOMAIN V |->
        IF v = parent_id
        THEN set_type(nest_section(V[v], V[id]), section_type)
        ELSE V[v]]

\* the vertex map without id, the removed section nested in the parent
Absorb(V, id, parent_id, section_type) ==
    [v \in (DOMAIN V) \ {id} |->
        IF v = parent_id
        THEN set_type(nest_section(V[v], V[id]), section_type)
        ELSE V[v]]

\* reduce_node were it to leave the reduced node in the vertex map
reduce_node_keeping(V, E, id, parent_id, section_type) ==
    IF id \notin DOMAIN V
    THEN Panic(V, E, "reduce_node: vertices.remove(id)")
    ELSE Graph(V,
               Dedup(RemoveSelfEdge(
                        RemoveParentEdge(RetargetOutgoing(E, id, parent_id),
                                         id, parent_id),
                        parent_id)))

reduce_node(V, E, id, parent_id, section_type) ==
    IF id \notin DOMAIN V
    THEN Panic(V, E, "reduce_node: vertices.remove(id)")
    ELSE IF parent_id \notin (DOMAIN V) \ {id}
    THEN Panic([v \in (DOMAIN V) \ {id} |-> V[v]], E,
               "reduce_node: vertices.get_mut(parent_id)")
    ELSE Graph(Absorb(V, id, parent_id, section_type),
               Dedup(RemoveSelfEdge(
                        RemoveParentEdge(RetargetOutgoing(E, id, parent_id),
                                         id, parent_id),
                        parent_id)))

----------------------------------------------------------------------------
(* ReverseInorderIterator *)

\* ReverseInorderIterator::new: the root 0 is on the stack
NewIterator == [stack |-> <<0>>, visited |-> {}, traversal_order |-> << >>]

PushStack(it, child) ==
    IF child \notin it.visited THEN [it EXCEPT !.stack = Append(@, child)] ELSE it

RECURSIVE traverse_node(_, _, _)
RECURSIVE traverse_children(_, _, _, _)

\* the loop over outgoing_edges.iter().rev(): idxs[k], idxs[k-1], ..., idxs[1]
traverse_children(E, it, idxs, k) ==
    IF k = 0 THEN it
    ELSE traverse_children(
            E, traverse_node(E, PushStack(it, E[idxs[k]][2]), E[idxs[k]][2]),
            idxs, k - 1)

\* the children of node, then traversal_order.push_front(node)
VisitNode(E, it, node, idxs) ==
    [traverse_children(E, it, idxs, Len(idxs))
        EXCEPT !.traversal_order = <<node>> \o @]

traverse_node(E, it, node) ==
    IF node \in it.visited THEN it
    ELSE VisitNode(E, [it EXCEPT !.visited = @ \cup {node}], node,
                   get_edges(E, node, "Outgoing"))

\* next were it to take the front of traversal_order
PopFront(it) ==
    IF it.traversal_order = << >>
    THEN [item |-> << >>, it |-> it]
    ELSE [item |-> <<Head(it.traversal_order)>>,
          it   |-> [it EXCEPT !.traversal_order = Tail(@)]]

\* traversal_order.pop_back(): the item, a one-element sequence or << >> for None
PopOrder(it) ==
    IF it.traversal_order = << >>
    THEN [item |-> << >>, it |-> it]
    ELSE [item |-> <<Last(it.traversal_order)>>,
          it   |-> [it EXCEPT !.traversal_order = Front(@)]]

\* Iterator::next
next(E, it) ==
    IF it.stack = << >> THEN [item |-> << >>, it |-> it]
    ELSE PopOrder(traverse_node(E, [it EXCEPT !.stack = Front(@)], Last(it.stack)))

RECURSIVE collect(_, _)
RECURSIVE CollectFrom(_, _)

\* the items of the iterator until its first None
CollectFrom(E, n) ==
    IF n.item = << >> THEN << >> ELSE n.item \o collect(E, n.it)

collect(E, it) == CollectFrom(E, next(E, it))

traverse(E) == collect(E, NewIterator)

----------------------------------------------------------------------------
(* The reduction functions.  Each returns whether it reduced, and the graph *)
(* after (a panic included).                                                *)

Reduced(g) == [applied |-> TRUE, g |-> g]

NotReduced(V, E) == [applied |-> FALSE, g |-> Graph(V, E)]

\* the first vertex yielded by traverse() that is in the set S, << >> when none
FirstMatch(E, S) == FirstIn(traverse(E), S)

\* every id a traversal can yield or an edge can name
Ids(V, E) == DOMAIN V \cup {0} \cup {e[1] : e \in Range(E)} \cup {e[2] : e \in Range(E)}

Dst(E, idx) == E[idx][2]

NoOut(E, v) == Len(get_edges(E, v, "Outgoing"))

NoIn(E, v) == Len(get_edges(E, v, "Incoming"))

\* r_sequential_blocks, the test of the only child
SequentialTest(E, child) ==
    IF NoIn(E, child) = 1 /\ NoOut(E, child) <= 1 THEN <<child>> ELSE << >>

SequentialChild(E, branches) ==
    IF Len(branches) = 1 THEN SequentialTest(E, Dst(E, branches[1])) ELSE << >>

\* r_sequential_blocks: the child to concatenate at a_section, << >> when none
SequentialAt(E, a_section) == SequentialChild(E, get_edges(E, a_section, "Outgoing"))

SequentialApply(V, E, at) ==
    IF at = << >> THEN NotReduced(V, E)
    ELSE Reduced(reduce_node(V, E, SequentialAt(E, at[1])[1], at[1], "Unbranching"))

r_sequential_blocks(V, E) ==
    SequentialApply(V, E, FirstMatch(E, {a \in Ids(V, E) : SequentialAt(E, a) # << >>}))

\* r_single_block_while, the tests of block_1 and then of block_2
SingleWhileTest(E, a_section, block_1, block_2) ==
    IF NoIn(E, block_1) = 1 /\ NoOut(E, block_1) = 1
       /\ contains_edge(E, block_1, a_section)
    THEN <<block_1>>
    ELSE IF NoIn(E, block_2) = 1 /\ NoOut(E, block_2) = 1
            /\ contains_edge(E, block_2, a_section)
    THEN <<block_2>>
    ELSE << >>

SingleWhileChild(E, a_section, children) ==
    IF Len(children) = 2
    THEN SingleWhileTest(E, a_section, Dst(E, children[1]), Dst(E, children[2]))
    ELSE << >>

\* r_single_block_while: the loop body at a_section, << >> when none
SingleWhileAt(E, a_section) ==
    SingleWhileChild(E, a_section, get_edges(E, a_section, "Outgoing"))

SingleWhileApply(V, E, at) ==
    IF at = << >> THEN NotReduced(V, E)
    ELSE Reduced(reduce_node(V, E, SingleWhileAt(E, at[1])[1], at[1], "SingleWhile"))

\* r_single_block_while were it never to match
r_single_block_while_never(V, E) == NotReduced(V, E)

r_single_block_while(V, E) ==
    SingleWhileApply(V, E, FirstMatch(E, {a \in Ids(V, E) : SingleWhileAt(E, a) # << >>}))

\* r_if_then, the tests of block_1 and then of block_2
IfThenTest(E, a_section, block_1, block_2) ==
    IF NoIn(E, block_1) = 1 /\ NoOut(E, block_1) <= 1
       /\ contains_edge(E, block_1, block_2)
       /\ block_2 # a_section
    THEN <<block_1>>
    ELSE IF NoIn(E, block_2) = 1 /\ NoOut(E, block_2) <= 1
            /\ contains_edge(E, block_2, block_1)
            /\ block_1 # a_section
    THEN <<block_2>>
    ELSE << >>

IfThenChild(E, a_section, children) ==
    IF Len(children) = 2
    THEN IfThenTest(E, a_section, Dst(E, children[1]), Dst(E, children[2]))
    ELSE << >>

\* r_if_then: the then-body at a_section, << >> when none
IfThenAt(E, a_section) == IfThenChild(E, a_section, get_edges(E, a_section, "Outgoing"))

IfThenApply(V, E, at) ==
    IF at = << >> THEN NotReduced(V, E)
    ELSE Reduced(reduce_node(V, E, IfThenAt(E, at[1])[1], at[1], "If"))

\* r_if_then were it never to match
r_if_then_never(V, E) == NotReduced(V, E)

r_if_then(V, E) ==
    IfThenApply(V, E, FirstMatch(E, {a \in Ids(V, E) : IfThenAt(E, a) # << >>}))

\* r_if_else, the test.  In the source && binds tighter than ||: the
\* single-parent test guards only the childless alternative.
IfElseTest(E, block_1, block_2, children_1, children_2) ==
    IF \/ /\ NoIn(E, block_1) = 1 /\ NoIn(E, block_2) = 1
          /\ Len(children_1) = 0 /\ Len(children_2) = 0
       \/ /\ Len(children_1) = 1 /\ Len(children_2) = 1
          /\ Dst(E, children_1[1]) = Dst(E, children_2[1])
    THEN <<block_1, block_2>>
    ELSE << >>

IfElseBlocks(E, block_1, block_2) ==
    IfElseTest(E, block_1, block_2,
               get_edges(E, block_1, "Outgoing"), get_edges(E, block_2, "Outgoing"))

IfElseChild(E, children) ==
    IF Len(children) = 2
    THEN IfElseBlocks(E, Dst(E, children[1]), Dst(E, children[2]))
    ELSE << >>

\* r_if_else: <<block_1, block_2>> at a_section, << >> when it does not match
IfElseAt(E, a_section) == IfElseChild(E, get_edges(E, a_section, "Outgoing"))

\* the second reduce_node, reached only when the first returned
IfElseSecond(first, block_2, a_section) ==
    IF ~first.ok THEN first
    ELSE reduce_node(first.vertices, first.edges, block_2, a_section, "IfElse")

\* r_if_else were it to reduce block_1 only
IfElseReduceFirst(V, E, a_section, blocks) ==
    reduce_node(V, E, blocks[1], a_section, "IfElse")

IfElseReduce(V, E, a_section, blocks) ==
    IfElseSecond(reduce_node(V, E, blocks[1], a_section, "IfElse"), blocks[2], a_section)

IfElseApply(V, E, at) ==
    IF at = << >> THEN NotReduced(V, E)
    ELSE Reduced(IfElseReduce(V, E, at[1], IfElseAt(E, at[1])))

r_if_else(V, E) ==
    IfElseApply(V, E, FirstMatch(E, {a \in Ids(V, E) : IfElseAt(E, a) # << >>}))

\* `processing = processing || r_...`: the result of the first function that
\* reduced, rest when this one did not
OrElse(rule, res, rest) ==
    IF res.applied THEN [rule |-> rule, g |-> res.g] ELSE rest

\* one iteration were the r_ functions called in the opposite order
ReductionPassReversed(V, E) ==
    OrElse("if_else", r_if_else(V, E),
    OrElse("if_then", r_if_then(V, E),
    OrElse("while", r_single_block_while(V, E),
    OrElse("sequence", r_sequential_blocks(V, E),
           [rule |-> "none", g |-> Graph(V, E)]))))

\* one iteration of `while processing`: the r_ functions in order, each called
\* only when none before it returned true
ReductionPass(V, E) ==
    OrElse("sequence", r_sequential_blocks(V, E),
    OrElse("while", r_single_block_while(V, E),
    OrElse("if_then", r_if_then(V, E),
    OrElse("if_else", r_if_else(V, E),
           [rule |-> "none", g |-> Graph(V, E)]))))

----------------------------------------------------------------------------
(* The reduction loop of iterated_cfg_reduction, one action per outcome of *)
(* an iteration.                                                            *)

\* the state after an iteration were the loop to stop after its first rewrite
EndPassStopping(r) ==
    /\ vertices' = r.g.vertices
    /\ edges' = r.g.edges
    /\ panicked' = r.g.why
    /\ pc' = IF ~r.g.ok THEN "panic" ELSE "reduced"
    /\ rewrites' = IF r.rule # "none" /\ r.g.ok THEN rewrites + 1 ELSE rewrites
    /\ passes' = passes + 1
    /\ lastRule' = r.rule
    /\ UNCHANGED <<prog, sections, origin, initial, order, output, word, decoded>>

\* the state after an iteration whose outcome is r
EndPass(r) ==
    /\ vertices' = r.g.vertices
    /\ edges' = r.g.edges
    /\ panicked' = r.g.why
    /\ pc' = IF ~r.g.ok THEN "panic"
             ELSE IF r.rule = "none" THEN "reduced"
             ELSE "reduce"
    /\ rewrites' = IF r.rule # "none" /\ r.g.ok THEN rewrites + 1 ELSE rewrites
    /\ passes' = passes + 1
    /\ lastRule' = r.rule
    /\ UNCHANGED <<prog, sections, origin, initial, order, output, word, decoded>>

RECURSIVE WhileProcessing(_, _)

\* `while processing` after an iteration whose outcome is r: the graph when
\* the loop stops (or panics)
WhileProcessingNext(r) ==
    IF ~r.g.ok \/ r.rule = "none" THEN r.g
    ELSE WhileProcessing(r.g.vertices, r.g.edges)

\* the whole loop of iterated_cfg_reduction on a graph
WhileProcessing(V, E) == WhileProcessingNext(ReductionPass(V, E))

\* r_sequential_blocks returned true (or panicked)
PassSequence ==
    /\ pc = "reduce"
    /\ \E r \in {ReductionPass(vertices, edges)} : r.rule = "sequence" /\ EndPass(r)

\* r_single_block_while returned true
PassSingleWhile ==
    /\ pc = "reduce"
    /\ \E r \in {ReductionPass(vertices, edges)} : r.rule = "while" /\ EndPass(r)

\* r_if_then returned true
PassIfThen ==
    /\ pc = "reduce"
    /\ \E r \in {ReductionPass(vertices, edges)} : r.rule = "if_then" /\ EndPass(r)

\* r_if_else returned true (or panicked)
PassIfElse ==
    /\ pc = "reduce"
    /\ \E r \in {ReductionPass(vertices, edges)} : r.rule = "if_else" /\ EndPass(r)

\* no function reduced: processing stays false and the loop ends
PassNone ==
    /\ pc = "reduce"
    /\ \E r \in {ReductionPass(vertices, edges)} : r.rule = "none" /\ EndPass(r)

ReductionLoop == PassSequence \/ PassSingleWhile \/ PassIfThen \/ PassIfElse \/ PassNone

----------------------------------------------------------------------------
(* Abstract graphs built directly, as the unit tests build them *)

MaxV == 3

MaxE == 3

Unbranching(ids) == [v \in ids |-> AbstractSection("Unbranching", v)]

\* create_fibb_graph
FibbEdges == << <<0, 4>>, <<0, 1>>, <<1, 2>>, <<1, 4>>, <<2, 3>>, <<2, 4>>, <<3, 2>> >>

\* create_test_graph
TestEdges == << <<0, 1>>, <<1, 2>>, <<1, 3>>, <<2, 4>>, <<3, 4>>, <<4, 5>>, <<4, 6>>,
                <<5, 6>>, <<6, 7>>, <<7, 8>>, <<8, 7>>, <<7, 9>>, <<9, 10>> >>

\* every edge list of at most MaxE edges over the vertices 0..n-1
EdgeLists(n) ==
    UNION {[1..k -> (0..(n - 1)) \X (0..(n - 1))] : k \in 0..MaxE}

InitGraph ==
    /\ \/ origin = "create_fibb_graph"
          /\ vertices = Unbranching(0..4) /\ edges = FibbEdges
       \/ origin = "create_test_graph"
          /\ vertices = Unbranching(0..10) /\ edges = TestEdges
       \/ \E n \in 1..MaxV :
            /\ origin = "graph"
            /\ vertices = Unbranching(0..(n - 1))
            /\ edges \in EdgeLists(n)
    /\ initial = Cardinality(DOMAIN vertices)
    /\ pc = "reduce"
    /\ prog = << >>
    /\ sections = << >>
    /\ passes = 0
    /\ rewrites = 0
    /\ lastRule = "none"
    /\ panicked = ""
    /\ order = << >>
    /\ output = << >>
    /\ word = <<0, 0>>
    /\ decoded = << >>

\* graph.traverse().collect()
Traverse ==
    /\ pc = "reduce"
    /\ order' = traverse(edges)
    /\ order' # order
    /\ UNCHANGED <<pc, prog, sections, vertices, edges, passes, rewrites, lastRule,
                   origin, initial, panicked, output, word, decoded>>

NextGraph == ReductionLoop \/ Traverse

SpecGraph == InitGraph /\ [][NextGraph]_vars

----------------------------------------------------------------------------
(* Programs.  An instruction is [address, kind, imm], kind "B" for           *)
(* InstructionType::B, "J" for InstructionType::J and "N" for the variants   *)
(* that do not end a block; only B and J carry an imm that is read.          *)

MaxInstr == 4

\* u64 addresses, scaled to AddrBits bits: checked_add_signed overflows below
\* 0 and above MaxAddress
AddrBits == 5

MaxAddress == 2^AddrBits - 1

\* branch and jump offsets, in bytes
Imms == {-4, 4, 8}

InstructionTypes ==
    {[kind |-> "N", imm |-> 0]}
        \cup [kind : {"B", "J"}, imm : Imms]

\* .text loaded at address 0 (a relocatable object) or so that the longest
\* program ends at the top of the address space
Bases == {0, MaxAddress + 1 - 4 * MaxInstr}

\* the programs of n instructions at consecutive word addresses from base
ProgramsAt(base, n) ==
    {[i \in 1..n |-> [address |-> base + 4 * (i - 1), kind |-> f[i].kind, imm |-> f[i].imm]] :
        f \in [1..n -> InstructionTypes]}

\* the instructions whose branches go forward
ForwardTypes ==
    {[kind |-> "N", imm |-> 0], [kind |-> "B", imm |-> 8],
     [kind |-> "J", imm |-> 4], [kind |-> "J", imm |-> 8]}

\* the longer programs: n forward instructions at consecutive word addresses
\* from 0, then one instruction that does not end a block
ForwardPrograms(n) ==
    {[i \in 1..(n + 1) |->
        [address |-> 4 * (i - 1),
         kind |-> IF i = n + 1 THEN "N" ELSE f[i].kind,
         imm |-> IF i = n + 1 THEN 0 ELSE f[i].imm]] :
        f \in [1..n -> ForwardTypes]}

----------------------------------------------------------------------------
(* InstructionSection, make_blocks *)

\* InstructionSection::new
InstructionSection(id) ==
    [id |-> id, instructions |-> << >>, branches |-> << >>, branch_type |-> "None",
     start |-> 0, end |-> 0]

\* the first `if` of add_to_range
SetStart(section, address) ==
    IF section.start = 0 THEN [section EXCEPT !.start = address] ELSE section

\* the second `if` of add_to_range
SetEnd(section, address) ==
    IF address > section.end THEN [section EXCEPT !.end = address] ELSE section

add_to_range(section, address) == SetEnd(SetStart(section, address), address)

in_block(section, address) == address >= section.start /\ address <= section.end

push(section, inst) == [section EXCEPT !.instructions = Append(@, inst)]

BranchType(inst) == IF inst.kind = "B" THEN "Conditional" ELSE "Unconditional"

set_branch_type(section, branch_type) == [section EXCEPT !.branch_type = branch_type]

\* the body of the loop of make_blocks for one instruction; st is
\* [sections, curr_section, section_id]
MakeBlocksStep(st, inst) ==
    IF inst.kind \in {"B", "J"}
    THEN [sections     |-> Append(st.sections,
                                  add_to_range(push(set_branch_type(st.curr_section,
                                                                    BranchType(inst)),
                                                    inst),
                                               inst.address)),
          curr_section |-> InstructionSection(st.section_id),
          section_id   |-> st.section_id + 1]
    ELSE [st EXCEPT !.curr_section = add_to_range(push(@, inst), inst.address)]

RECURSIVE MakeBlocksLoop(_, _, _)
\* the loop of make_blocks from the k-th instruction on
MakeBlocksLoop(instructions, k, st) ==
    IF k > Len(instructions) THEN st
    ELSE MakeBlocksLoop(instructions, k + 1, MakeBlocksStep(st, instructions[k]))

\* make_blocks were it to return without the push after the loop
MakeBlocksEndWithoutPush(st) == st.sections

\* sections.push(curr_section) after the loop
MakeBlocksEnd(st) == Append(st.sections, st.curr_section)

make_blocks(instructions) ==
    MakeBlocksEnd(MakeBlocksLoop(instructions, 1,
        [sections |-> << >>, curr_section |-> InstructionSection(0), section_id |-> 1]))

\* a line "<label>jump to section <id>" of a formatted section
JumpLine(label, id) == [label |-> label, section |-> id]

\* impl Display for InstructionSection, the lines after the instructions:
\* ok = FALSE is the panic of branches.get(1).unwrap()
fmt(section) ==
    IF section.branches = << >>
    THEN [ok |-> TRUE, jumps |-> << >>]
    ELSE IF section.branch_type = "Conditional"
    THEN IF Len(section.branches) < 2
         THEN [ok |-> FALSE, jumps |-> <<JumpLine("true", section.branches[1])>>]
         ELSE [ok |-> TRUE, jumps |-> <<JumpLine("true", section.branches[1]),
                                        JumpLine("false", section.branches[2])>>]
    ELSE [ok |-> TRUE, jumps |-> <<JumpLine("", section.branches[1])>>]

----------------------------------------------------------------------------
(* resolve_jumps.  Block i of the source is S[i + 1]; a branch is kept as the *)
(* id of the section it clones, the only field of the clone that is read.     *)

\* u64::checked_add_signed: << >> for None
checked_add_signed(pc_, imm) ==
    IF pc_ + imm < 0 \/ pc_ + imm > MaxAddress THEN << >> ELSE <<pc_ + imm>>

\* Option::unwrap_or
unwrap_or(opt, default) == IF opt = << >> THEN default ELSE opt[1]

\* find_section: the index of the first section whose range holds the address
find_section(S, address) ==
    IF \E i \in 1..Len(S) : in_block(S[i], address)
    THEN <<Min({i \in 1..Len(S) : in_block(S[i], address)}) - 1>>
    ELSE << >>

add_branch(section, id) == [section EXCEPT !.branches = Append(@, id)]

\* `if i + 1 < sections.len()`: the fallthrough edge
AddFallthrough(S, i, section) ==
    IF i + 1 < Len(S) THEN add_branch(section, S[i + 2].id) ELSE section

\* `if let Some(target_index) = find_section(..)`
AddTarget(S, target, section) ==
    IF target # << >> THEN add_branch(section, S[target[1] + 1].id) ELSE section

\* the Conditional arm past the unwrap: the target, then the fallthrough
ResolveConditional(S, i, destination_addr) ==
    AddFallthrough(S, i, AddTarget(S, find_section(S, destination_addr), S[i + 1]))

\* the Unconditional arm were it to add the fallthrough beside the target
ResolveUnconditionalBoth(S, i, target) ==
    AddFallthrough(S, i, AddTarget(S, target, S[i + 1]))

\* the Unconditional arm: the target, else the fallthrough
ResolveUnconditionalAt(S, i, target) ==
    IF target # << >> THEN AddTarget(S, target, S[i + 1])
    ELSE AddFallthrough(S, i, S[i + 1])

ResolveUnconditional(S, i, destination_addr) ==
    ResolveUnconditionalAt(S, i, find_section(S, destination_addr))

\* the offset of the last instruction of a section
LastImm(section) == Last(section.instructions).imm

\* whether the target address of the section's branch or jump overflows
Overflows(section) == checked_add_signed(section.end, LastImm(section)) = << >>

\* one iteration of the loop of resolve_jumps; st is [ok, sections]
ResolveStep(st, i) ==
    IF st.sections[i + 1].branch_type = "Conditional"
    THEN IF Overflows(st.sections[i + 1])
         THEN \* checked_add_signed(..).unwrap() panics
              [st EXCEPT !.ok = FALSE]
         ELSE [st EXCEPT !.sections[i + 1] =
                  ResolveConditional(st.sections, i,
                      checked_add_signed(@.end, LastImm(@))[1])]
    ELSE IF st.sections[i + 1].branch_type = "Unconditional"
    THEN [st EXCEPT !.sections[i + 1] =
             ResolveUnconditional(st.sections, i,
                 unwrap_or(checked_add_signed(@.end, LastImm(@)), 0))]
    ELSE [st EXCEPT !.sections[i + 1] = AddFallthrough(st.sections, i, @)]

RECURSIVE ResolveLoop(_, _)
\* `for i in 0..sections.len()` from i on
ResolveLoop(st, i) ==
    IF ~st.ok \/ i >= Len(st.sections) THEN st
    ELSE ResolveLoop(ResolveStep(st, i), i + 1)

resolve_jumps(S) == ResolveLoop([ok |-> TRUE, sections |-> S], 0)

\* generate_sections: [ok, sections], the SectionMap as the sequence of its
\* values in id order
generate_sections(instructions) == resolve_jumps(make_blocks(instructions))

\* the edges build_abstract_graph pushes for one section
SectionEdges(section) ==
    [k \in 1..Len(section.branches) |-> <<section.id, section.branches[k]>>]

RECURSIVE AllEdges(_, _)
\* the edges of the sections from the k-th on, in push order
AllEdges(S, k) ==
    IF k > Len(S) THEN << >> ELSE SectionEdges(S[k]) \o AllEdges(S, k + 1)

\* build_abstract_graph (sections is never empty: make_blocks returns at least
\* one section)
build_abstract_graph(S) ==
    Graph([id \in {S[k].id : k \in 1..Len(S)} |-> AbstractSection("Unbranching", id)],
          AllEdges(S, 1))

----------------------------------------------------------------------------
(* high_level_conversion.  A line of the output is kept as what it is made   *)
(* from: its kind, the indent and the instruction address, section or        *)
(* destination formatted into it.                                            *)

Line(kind, indent, arg) == [line |-> kind, indent |-> indent, arg |-> arg]

\* the emitter's state: ok = FALSE after a panic
Emitter(out, indent) == [ok |-> TRUE, output |-> out, indent |-> indent]

EmitLine(st, kind, arg) ==
    [st EXCEPT !.output = Append(@, Line(kind, st.indent, arg))]

Indent(st, by) == [st EXCEPT !.indent = @ + by]

RECURSIVE EmitInstructions(_, _, _)
\* `if index < count - 1 { output.push(convert_instruction(..)) }`: the
\* instructions of the section but the last, from the k-th on
EmitInstructions(st, instructions, k) ==
    IF k > Len(instructions) - 1 THEN st
    ELSE EmitInstructions(EmitLine(st, "instruction", instructions[k].address),
                          instructions, k + 1)

RECURSIVE EmitGotos(_, _, _)
\* `for idx in outgoing`: a GOTO per outgoing edge left in the abstract graph
EmitGotos(st, E, idxs) ==
    IF idxs = << >> THEN st
    ELSE EmitGotos(EmitLine(st, "goto", E[Head(idxs)][2]), E, Tail(idxs))

RECURSIVE convert_section(_, _, _, _)
RECURSIVE ConvertAll(_, _, _, _, _)

\* convert_section on the nested sections from the k-th on
ConvertAll(nested, k, st, E, S) ==
    IF k > Len(nested) THEN st
    ELSE ConvertAll(nested, k + 1, convert_section(nested[k], st, E, S), E, S)

\* `if (C) {`, nested[0] one level deeper, `}`
ConvertThen(section, st, E, S) ==
    EmitLine(Indent(convert_section(section.abstract_sections[1],
                                    Indent(EmitLine(st, "if", section.concrete_section), 1),
                                    E, S),
                    -1),
             "close", section.concrete_section)

\* `else {`, nested[1] one level deeper, `}`
ConvertElse(section, st, E, S) ==
    EmitLine(Indent(convert_section(section.abstract_sections[2],
                                    Indent(EmitLine(st, "else", section.concrete_section), 1),
                                    E, S),
                    -1),
             "close", section.concrete_section)

\* `while (C) {`, every nested section one level deeper, `}`
ConvertWhile(section, st, E, S) ==
    EmitLine(Indent(ConvertAll(section.abstract_sections, 1,
                               Indent(EmitLine(st, "while", section.concrete_section), 1),
                               E, S),
                    -1),
             "close", section.concrete_section)

\* the arms of `match section.get_type()`, st holding the instructions but the last
ConvertArm(section, st, E, S) ==
    CASE section.section_type = "If" ->
            ConvertAll(section.abstract_sections, 2, ConvertThen(section, st, E, S), E, S)
      [] section.section_type = "IfElse" ->
            ConvertAll(section.abstract_sections, 3,
                       ConvertElse(section, ConvertThen(section, st, E, S), E, S), E, S)
      [] section.section_type = "SingleWhile" ->
            ConvertWhile(section, st, E, S)
      [] section.section_type = "Unbranching" ->
            ConvertAll(section.abstract_sections, 1, st, E, S)
      [] OTHER -> \* unimplemented!()
            [st EXCEPT !.ok = FALSE]

\* the GOTO lines, unless a nested call panicked
ConvertGotos(section, st, E) ==
    IF ~st.ok THEN st
    ELSE EmitGotos(st, E, get_edges(E, section.concrete_section, "Outgoing"))

convert_section(section, st, E, S) ==
    IF ~st.ok THEN st
    ELSE IF S[section.concrete_section + 1].instructions = << >>
    THEN \* instructions.values().last().unwrap() panics
         [st EXCEPT !.ok = FALSE]
    ELSE ConvertGotos(section,
            ConvertArm(section,
                       EmitInstructions(st, S[section.concrete_section + 1].instructions, 1),
                       E, S),
            E)

RECURSIVE ConvertVertices(_, _, _, _, _)
\* `for (_, section) in abstract_sections.get_vertices()`: ascending ids
ConvertVertices(V, ids, st, E, S) ==
    IF ids = << >> THEN st
    ELSE ConvertVertices(V, Tail(ids), convert_section(V[Head(ids)], st, E, S), E, S)

\* the closing brace of main, unless a section panicked
CloseMain(st) ==
    IF ~st.ok THEN st
    ELSE [st EXCEPT !.output = Append(@, Line("main_close", 0, 0))]

high_level_conversion(S, V, E) ==
    CloseMain(ConvertVertices(V, Ascending(DOMAIN V),
                              Emitter(<<Line("main_open", 0, 0)>>, 1), E, S))

----------------------------------------------------------------------------
(* The pipeline on a program: what the application runs when a file is      *)
(* opened (generate_sections, then output_decompiled_code).                  *)

GenerateSections ==
    /\ pc = "start"
    /\ \E r \in {generate_sections(prog)} :
          /\ sections' = IF r.ok THEN r.sections ELSE sections
          /\ pc' = IF r.ok THEN "cfg" ELSE "panic"
          /\ panicked' = IF r.ok THEN "" ELSE "resolve_jumps: checked_add_signed(imm).unwrap()"
    /\ UNCHANGED <<prog, vertices, edges, passes, rewrites, lastRule, origin, initial,
                   order, output, word, decoded>>

\* iterated_cfg_reduction up to its loop.  build_graph, which only fills a
\* petgraph value that is never read, is left out.
BuildAbstractGraph ==
    /\ pc = "cfg"
    /\ \E g \in {build_abstract_graph(sections)} :
          /\ vertices' = g.vertices
          /\ edges' = g.edges
          /\ initial' = Cardinality(DOMAIN g.vertices)
    /\ pc' = "reduce"
    /\ UNCHANGED <<prog, sections, passes, rewrites, lastRule, origin, panicked,
                   order, output, word, decoded>>

HighLevelConversion ==
    /\ pc = "reduced"
    /\ origin = "program"
    /\ \E r \in {high_level_conversion(sections, vertices, edges)} :
          /\ output' = r.output
          /\ pc' = IF r.ok THEN "done" ELSE "panic"
          /\ panicked' = IF r.ok THEN "" ELSE "convert_section: instructions.values().last().unwrap()"
    /\ UNCHANGED <<prog, sections, vertices, edges, passes, rewrites, lastRule, origin,
                   initial, order, word, decoded>>

Init ==
    /\ \/ \E base \in Bases, n \in 0..MaxInstr : prog \in ProgramsAt(base, n)
       \/ prog \in ForwardPrograms(MaxInstr + 1)
    /\ pc = "start"
    /\ origin = "program"
    /\ sections = << >>
    /\ vertices = << >>
    /\ edges = << >>
    /\ initial = 0
    /\ passes = 0
    /\ rewrites = 0
    /\ lastRule = "none"
    /\ panicked = ""
    /\ order = << >>
    /\ output = << >>
    /\ word = <<0, 0>>
    /\ decoded = << >>

Next == GenerateSections \/ BuildAbstractGraph \/ ReductionLoop \/ HighLevelConversion

Spec == Init /\ [][Next]_vars

----------------------------------------------------------------------------
(* disassemble.  An Instruction (u32) is <<high half, low half>>, each half *)
(* a 16-bit number, so that bit k of the word is bit k of the low half for  *)
(* k < 16 and bit k - 16 of the high half otherwise.                         *)

\* the n bits of the word from bit `from` up, as a number: (inst >> from)
\* masked to n bits
Bits(inst, from, n) ==
    IF from >= 16 THEN (inst[1] \div 2^(from - 16)) % 2^n
    ELSE IF from + n <= 16 THEN (inst[2] \div 2^from) % 2^n
    ELSE (inst[2] \div 2^from) + (inst[1] % 2^(from + n - 16)) * 2^(16 - from)

retrieve_opcode(inst) == Bits(inst, 2, 5)

retrieve_rd(inst) == Bits(inst, 7, 5)

retrieve_funct3(inst) == Bits(inst, 12, 3)

retrieve_funct7(inst) == Bits(inst, 25, 7)

retrieve_rs1(inst) == Bits(inst, 15, 5)

retrieve_rs2(inst) == Bits(inst, 20, 5)

\* inst[31:25] to imm[11:5], inst[11:7] to imm[4:0]
retrieve_simm(inst) == Bits(inst, 25, 7) * 32 + Bits(inst, 7, 5)

\* inst[31] to imm[12], inst[7] to imm[11], inst[30:25] to imm[10:5],
\* inst[11:8] to imm[4:1]
retrieve_bimm(inst) ==
    Bits(inst, 31, 1) * 4096 + Bits(inst, 7, 1) * 2048
        + Bits(inst, 25, 6) * 32 + Bits(inst, 8, 4) * 2

retrieve_iimm(inst) == Bits(inst, 20, 12)

retrieve_uimm(inst) == Bits(inst, 12, 20)

\* inst[31] to imm[20], inst[19:12] in place, inst[20] to imm[11],
\* inst[30:21] to imm[10:1]
retrieve_jimm(inst) ==
    Bits(inst, 31, 1) * 1048576 + Bits(inst, 12, 8) * 4096
        + Bits(inst, 20, 1) * 2048 + Bits(inst, 21, 10) * 2

\* OpcodeBitfield::from_opcode
from_opcode(opcode) ==
    [op4 |-> opcode \div 16 = 1,
     op3 |-> (opcode \div 8) % 2 = 1,
     op2 |-> (opcode \div 4) % 2 = 1,
     op1 |-> (opcode \div 2) % 2 = 1,
     op0 |-> opcode % 2 = 1]

\* determine_type on the bitfield: << >> for None
TypeOf(bf) ==
    IF (bf.op4 /\ bf.op2) \/ (bf.op3 /\ bf.op2 /\ ~bf.op0) THEN <<"R">>
    ELSE IF \/ (~bf.op4 /\ ~bf.op3 /\ ~bf.op2)
            \/ (~bf.op4 /\ ~bf.op3 /\ ~bf.op0)
            \/ (bf.op4 /\ bf.op3 /\ ~bf.op1 /\ bf.op0) THEN <<"I">>
    ELSE IF ~bf.op4 /\ bf.op3 /\ ~bf.op2 THEN <<"S">>
    ELSE IF bf.op4 /\ bf.op3 /\ ~bf.op0 THEN <<"B">>
    ELSE IF bf.op2 /\ bf.op0 THEN <<"U">>
    ELSE IF bf.op3 /\ ~bf.op2 /\ bf.op1 THEN <<"J">>
    ELSE << >>

determine_type(opcode) == TypeOf(from_opcode(opcode))

\* the phf map: <<opcode, funct3, funct7>> to the name
INSTRUCTIONS ==
    { <<<<0, 0, 0>>, "lb">>, <<<<0, 1, 0>>, "lh">>, <<<<0, 2, 0>>, "lw">>,
      <<<<0, 4, 0>>, "lbu">>, <<<<0, 5, 0>>, "lhu">>,
      <<<<4, 0, 0>>, "addi">>, <<<<4, 1, 0>>, "slli">>, <<<<4, 2, 0>>, "slti">>,
      <<<<4, 3, 0>>, "sltiu">>, <<<<4, 4, 0>>, "xori">>, <<<<4, 5, 0>>, "srli">>,
      <<<<4, 5, 32>>, "srai">>, <<<<4, 6, 0>>, "ori">>, <<<<4, 7, 0>>, "andi">>,
      <<<<5, 0, 0>>, "auipc">>,
      <<<<8, 0, 0>>, "sb">>, <<<<8, 1, 0>>, "sh">>, <<<<8, 2, 0>>, "sw">>,
      <<<<12, 0, 0>>, "add">>, <<<<12, 0, 32>>, "sub">>, <<<<12, 1, 0>>, "sll">>,
      <<<<12, 2, 0>>, "slt">>, <<<<12, 3, 0>>, "sltu">>, <<<<12, 4, 0>>, "xor">>,
      <<<<12, 5, 0>>, "srl">>, <<<<12, 5, 32>>, "sra">>, <<<<12, 6, 0>>, "or">>,
      <<<<12, 7, 0>>, "and">>,
      <<<<13, 0, 0>>, "lui">>,
      <<<<24, 0, 0>>, "beq">>, <<<<24, 1, 0>>, "bne">>, <<<<24, 4, 0>>, "blt">>,
      <<<<24, 5, 0>>, "bge">>, <<<<24, 6, 0>>, "bltu">>, <<<<24, 7, 0>>, "bgeu">>,
      <<<<25, 0, 0>>, "jalr">>, <<<<27, 0, 0>>, "jal">>,
      <<<<0, 3, 0>>, "ld">>, <<<<0, 6, 0>>, "lwu">>,
      <<<<6, 0, 0>>, "addiw">>, <<<<6, 1, 0>>, "slliw">>, <<<<6, 5, 0>>, "srliw">>,
      <<<<8, 3, 0>>, "sd">>,
      <<<<14, 0, 0>>, "addw">>, <<<<14, 0, 32>>, "subw">>, <<<<14, 1, 0>>, "sllw">>,
      <<<<14, 5, 0>>, "srlw">>, <<<<14, 5, 32>>, "sraw">>,
      <<<<28, 0, 0>>, "syscall">>, <<<<28, 1, 0>>, "csrrw">>, <<<<28, 2, 0>>, "csrrs">>,
      <<<<28, 3, 0>>, "csrrc">>, <<<<28, 5, 0>>, "csrrwi">>, <<<<28, 6, 0>>, "csrrsi">>,
      <<<<28, 7, 0>>, "csrrci">> }

\* from_bits: INSTRUCTIONS.get(&key), << >> for None
from_bits(opcode, funct3, funct7) ==
    IF \E e \in INSTRUCTIONS : e[1] = <<opcode, funct3, funct7>>
    THEN <<(CHOOSE e \in INSTRUCTIONS : e[1] = <<opcode, funct3, funct7>>)[2]>>
    ELSE << >>

\* the funct3 determine_name looks up: 0 for the U and J types
NameFunct3(inst, i_type) ==
    IF i_type \in {"U", "J"} THEN 0 ELSE retrieve_funct3(inst)

\* the funct7 determine_name looks up: read only for the R type and for
\* opcode 0b00100
NameFunct7(inst, opcode, i_type) ==
    IF i_type \notin {"U", "J"} /\ (i_type = "R" \/ opcode = 4)
    THEN retrieve_funct7(inst) ELSE 0

\* determine_name past `determine_type(opcode)?`
NameOfType(inst, opcode, i_type, name) ==
    IF name = << >> THEN << >> ELSE <<[name |-> name[1], i_type |-> i_type]>>

NameOf(inst, opcode, i_type) ==
    NameOfType(inst, opcode, i_type,
               from_bits(opcode, NameFunct3(inst, i_type), NameFunct7(inst, opcode, i_type)))

DetermineNameAt(inst, opcode, i_type) ==
    IF i_type = << >> THEN << >> ELSE NameOf(inst, opcode, i_type[1])

determine_name(inst) ==
    DetermineNameAt(inst, retrieve_opcode(inst), determine_type(retrieve_opcode(inst)))

\* the value kept of `value & mask`
SignedOf(value, bits) ==
    IF value <= 2^(bits - 1) - 1 THEN value ELSE value - 2^bits

convert_to_signed(value, bits) == SignedOf(value % 2^bits, bits)

\* `as i16`: the low 16 bits, as a two's complement number
as_i16(value) == SignedOf(value % 65536, 16)

\* the names of ABIRegister, register k at index k + 1
ABINames ==
    <<"zero", "ra", "sp", "gp", "tp", "t0", "t1", "t2", "s0", "s1", "a0", "a1",
      "a2", "a3", "a4", "a5", "a6", "a7", "s2", "s3", "s4", "s5", "s6", "s7",
      "s8", "s9", "s10", "s11", "t3", "t4", "t5", "t6">>

\* ABIRegister::from
ABIRegister(value) ==
    IF value + 1 \in DOMAIN ABINames THEN ABINames[value + 1] ELSE "Unknown"

\* the InstructionType disassemble builds for a name and a type
Decode(inst, d) ==
    CASE d.i_type = "R" ->
            [type |-> "R", name |-> d.name, rd |-> ABIRegister(retrieve_rd(inst)),
             rs1 |-> ABIRegister(retrieve_rs1(inst)), rs2 |-> ABIRegister(retrieve_rs2(inst))]
      [] d.i_type = "I" ->
            [type |-> "I", name |-> d.name, rd |-> ABIRegister(retrieve_rd(inst)),
             rs1 |-> ABIRegister(retrieve_rs1(inst)), imm |-> retrieve_iimm(inst)]
      [] d.i_type = "S" ->
            [type |-> "S", name |-> d.name, rs1 |-> ABIRegister(retrieve_rs1(inst)),
             rs2 |-> ABIRegister(retrieve_rs2(inst)), imm |-> retrieve_simm(inst)]
      [] d.i_type = "B" ->
            [type |-> "B", name |-> d.name, rs1 |-> ABIRegister(retrieve_rs1(inst)),
             rs2 |-> ABIRegister(retrieve_rs2(inst)),
             imm |-> as_i16(convert_to_signed(retrieve_bimm(inst), 12))]
      [] d.i_type = "U" ->
            [type |-> "U", name |-> d.name, rd |-> ABIRegister(retrieve_rd(inst)),
             imm |-> retrieve_uimm(inst)]
      [] d.i_type = "J" ->
            [type |-> "J", name |-> d.name, rd |-> ABIRegister(retrieve_rd(inst)),
             imm |-> convert_to_signed(retrieve_jimm(inst), 20)]

\* `if let Some((name, i_type)) = determine_name(&instruction)`
DecodeNamed(inst, named) ==
    IF named = << >> THEN << >> ELSE <<Decode(inst, named[1])>>

\* the validity test were it to leave out the low two bits
InvalidWithoutLowBits(inst) == inst = <<0, 0>> \/ inst = <<65535, 65535>>

\* the validity test of disassemble: the word 0, the word 0xFFFFFFFF, or low
\* two bits that are not 11
Invalid(inst) ==
    inst = <<0, 0>> \/ inst = <<65535, 65535>> \/ inst[2] % 4 # 3

\* disassemble: << >> for None, <<instruction>> for Some
disassemble(inst) ==
    IF Invalid(inst) THEN << >> ELSE DecodeNamed(inst, determine_name(inst))

\* the word with the given fields
MakeWord(lo2, opcode, rd, funct3, rs1, rs2, funct7) ==
    <<funct7 * 512 + rs2 * 16 + rs1 \div 2,
      (rs1 % 2) * 32768 + funct3 * 4096 + rd * 128 + opcode * 4 + lo2>>

\* the register fields and funct7 values the words are built from
Registers == {0, 10, 31}

Funct7s == {0, 1, 32, 127}

InitDecode ==
    /\ \E lo2 \in 0..3, opcode \in 0..31, rd \in Registers, funct3 \in 0..7,
          rs1 \in {0, 31}, rs2 \in {0, 31}, funct7 \in Funct7s :
          word = MakeWord(lo2, opcode, rd, funct3, rs1, rs2, funct7)
    /\ decoded = << >>
    /\ pc = "decode"
    /\ origin = "word"
    /\ prog = << >>
    /\ sections = << >>
    /\ vertices = << >>
    /\ edges = << >>
    /\ initial = 0
    /\ passes = 0
    /\ rewrites = 0
    /\ lastRule = "none"
    /\ panicked = ""
    /\ order = << >>
    /\ output = << >>

Disassemble ==
    /\ pc = "decode"
    /\ decoded' = disassemble(word)
    /\ pc' = "decoded"
    /\ UNCHANGED <<prog, sections, vertices, edges, passes, rewrites, lastRule, origin,
                   initial, panicked, order, output, word>>

NextDecode == Disassemble

SpecDecode == InitDecode /\ [][NextDecode]_vars

----------------------------------------------------------------------------
(* Reference definitions for the claims about traverse() *)

RECURSIVE Closure(_, _)

ClosureStep(E, S, T) == IF T = S THEN S ELSE Closure(E, T)

\* the vertices reachable from a vertex of S along the edges of E
Closure(E, S) ==
    ClosureStep(E, S, S \cup {e[2] : e \in {d \in Range(E) : d[1] \in S}})

RECURSIVE ChildrenRev(_, _)
\* the destinations of the edges leaving v, last edge of the list first
ChildrenRev(E, v) ==
    IF E = << >> THEN << >>
    ELSE ChildrenRev(Tail(E), v) \o (IF Head(E)[1] = v THEN <<Head(E)[2]>> ELSE << >>)

RECURSIVE PostOrder(_, _, _, _)
RECURSIVE PostOrderAll(_, _, _, _)

\* depth-first search from v: the vertices seen and the vertices finished, in
\* the order in which they finish
PostOrder(E, v, seen, post) ==
    IF v \in seen THEN [seen |-> seen, post |-> post]
    ELSE PostOrderAll(E, ChildrenRev(E, v), v, [seen |-> seen \cup {v}, post |-> post])

\* the children cs of v one after the other, then v itself
PostOrderAll(E, cs, v, st) ==
    IF cs = << >> THEN [seen |-> st.seen, post |-> Append(st.post, v)]
    ELSE PostOrderAll(E, Tail(cs), v, PostOrder(E, Head(cs), st.seen, st.post))

IsPostOrderFromRoot(E, t) ==
    /\ Range(t) = Closure(E, {0})
    /\ Len(t) = Cardinality(Range(t))
    /\ t = PostOrder(E, 0, {}, << >>).post

\* C6: whenever traverse() is collected, on any abstract graph (cyclic ones and
\* graphs part-way through reduction included), it ends and yields exactly the
\* vertices reachable from vertex 0, each once, in the post-order of the
\* depth-first search from 0 that takes outgoing edges in reverse edge-list
\* order; on the Fibonacci graph that is [4, 3, 2, 1, 0].
C6_TraversePostOrder ==
    [][order' # order =>
          /\ IsPostOrderFromRoot(edges, order')
          /\ (edges = FibbEdges => order' = <<4, 3, 2, 1, 0>>)]_vars

\* a cyclic graph has been traversed and every vertex but the root came
\* before the vertex it was discovered through
C6_Witness ==
    /\ origin = "create_fibb_graph"
    /\ passes = 0
    /\ order = <<4, 3, 2, 1, 0>>

\* C4: the loop on create_test_graph ends, without panic, after exactly 10
\* iterations with one vertex left, and on create_fibb_graph after exactly 5
\* iterations with one vertex left; the last iteration is the one in which no
\* function reduces.
C4_TestGraphIterations ==
    /\ origin \in {"create_test_graph", "create_fibb_graph"} =>
          /\ pc # "panic"
          /\ passes <= (IF origin = "create_test_graph" THEN 10 ELSE 5)
          /\ (pc = "reduce" => passes < (IF origin = "create_test_graph" THEN 10 ELSE 5))
    /\ (origin = "create_test_graph" /\ pc = "reduced") =>
          passes = 10 /\ Cardinality(DOMAIN vertices) = 1 /\ lastRule = "none"
    /\ (origin = "create_fibb_graph" /\ pc = "reduced") =>
          passes = 5 /\ Cardinality(DOMAIN vertices) = 1 /\ lastRule = "none"

C4_Witness ==
    /\ origin = "create_test_graph"
    /\ pc = "reduced"
    /\ passes = 10
    /\ DOMAIN vertices = {0}

\* C5 as claimed: full reduction of the 11-vertex test graph takes exactly 10
\* successful rewrites and that of the Fibonacci graph exactly 5.
C5_AsClaimed ==
    /\ (origin = "create_test_graph" /\ pc = "reduced") =>
          rewrites = 10 /\ Cardinality(DOMAIN vertices) = 1
    /\ (origin = "create_fibb_graph" /\ pc = "reduced") =>
          rewrites = 5 /\ Cardinality(DOMAIN vertices) = 1

\* C5 amended: full reduction of the 11-vertex test graph reaches a single
\* vertex in exactly 9 successful rewrites (10 loop iterations) and that of
\* the Fibonacci graph in exactly 4 (5 loop iterations).
C5_TestGraphRewrites ==
    /\ (origin = "create_test_graph" /\ pc = "reduced") =>
          rewrites = 9 /\ passes = 10 /\ Cardinality(DOMAIN vertices) = 1
    /\ (origin = "create_fibb_graph" /\ pc = "reduced") =>
          rewrites = 4 /\ passes = 5 /\ Cardinality(DOMAIN vertices) = 1

C5_Witness ==
    /\ origin = "create_fibb_graph"
    /\ pc = "reduced"
    /\ rewrites = 4
    /\ DOMAIN vertices = {0}

----------------------------------------------------------------------------
(* Claims about the reduction loop *)

\* C2: on every initial abstract graph of V vertices the reduction loop runs
\* at most V iterations: never more than V have run, and fewer than V have
\* run whenever another one is about to start.
C2_AtMostVPasses ==
    /\ passes <= initial
    /\ (pc = "reduce" => passes < initial)

\* the loop has ended after exactly V iterations on a graph of three vertices
C2_Witness ==
    /\ origin = "graph"
    /\ pc = "reduced"
    /\ initial = MaxV
    /\ passes = initial
    /\ rewrites = initial - 1

\* C3: an iteration in which a reduction function returned true leaves the
\* graph with exactly one vertex fewer after r_sequential_blocks,
\* r_single_block_while or r_if_then, and exactly two fewer after r_if_else.
C3_RewriteRemoves ==
    [][rewrites' = rewrites + 1 =>
          Cardinality(DOMAIN vertices) - Cardinality(DOMAIN vertices')
              = (IF lastRule' = "if_else" THEN 2 ELSE 1)]_vars

\* r_if_else has just absorbed both branches of an if-else of create_test_graph
C3_Witness ==
    /\ lastRule = "if_else"
    /\ pc = "reduce"
    /\ rewrites >= 1
    /\ origin = "create_test_graph"
    /\ Cardinality(DOMAIN vertices) = initial - rewrites - 1

----------------------------------------------------------------------------
(* Claims about generate_sections *)

\* the successors of block k are what C7 allows for its branch type
SuccessorsFit(S, k) ==
    /\ S[k].branch_type = "Conditional" => Len(S[k].branches) \in {1, 2}
    /\ S[k].branch_type = "Unconditional" => Len(S[k].branches) = 1
    /\ S[k].branch_type = "None" => Len(S[k].branches) <= 1
    /\ \A b \in Range(S[k].branches) : \E j \in 1..Len(S) : S[j].id = b

\* C7: in every CFG generate_sections returns, a Conditional block has 1 or 2
\* successors, an Unconditional block exactly 1, a block without branch at
\* most 1, and every successor is the id of a block of the CFG.
C7_SuccessorCounts ==
    \A k \in 1..Len(sections) : SuccessorsFit(sections, k)

\* a CFG with a conditional block of two successors, a conditional block
\* whose target lies outside the function, and an unconditional block
C7_Witness ==
    /\ pc = "cfg"
    /\ \E k \in 1..Len(sections) :
          sections[k].branch_type = "Conditional" /\ Len(sections[k].branches) = 2
    /\ \E k \in 1..Len(sections) :
          sections[k].branch_type = "Conditional" /\ Len(sections[k].branches) = 1
    /\ \E k \in 1..Len(sections) :
          sections[k].branch_type = "Unconditional" /\ Len(sections[k].branches) = 1

\* the range of a block that holds instructions is that of its instructions
RangeFits(section) ==
    /\ section.start = section.instructions[1].address
    /\ section.end = Last(section.instructions).address
    /\ section.start <= section.end
    /\ \A k \in 1..Len(section.instructions) :
          in_block(section, section.instructions[k].address)

\* C8: for every block make_blocks builds, whatever the base address, start
\* is the address of the block's first instruction, end that of its last,
\* start <= end and every instruction address lies within [start, end].
C8_BlockRange ==
    \A k \in 1..Len(sections) :
        sections[k].instructions # << >> => RangeFits(sections[k])

\* C9: when end + imm of a block's last branch or jump leaves the address
\* range, resolve_jumps does not panic and the block gets its fallthrough
\* edge and nothing else.
C9_OverflowFallsThrough ==
    /\ panicked # "resolve_jumps: checked_add_signed(imm).unwrap()"
    /\ \A k \in 1..Len(sections) :
          (sections[k].branch_type # "None" /\ Overflows(sections[k]))
              => sections[k].branches = <<sections[k].id + 1>>

\* C1: once generate_sections has returned a CFG, neither the reduction loop
\* nor the emission panics: reduce_node is never called for a node that is its
\* own parent or is no longer in the vertex map, and convert_section never
\* meets a block without a last instruction.
C1_PipelineNeverFails ==
    pc = "panic" => panicked = "resolve_jumps: checked_add_signed(imm).unwrap()"

----------------------------------------------------------------------------
(* Claims about disassemble *)

\* C10: disassemble returns None for the word 0, for the word 0xFFFFFFFF and
\* for every word whose two lowest bits are not 11.
C10_RejectsInvalid ==
    (/\ pc = "decoded"
     /\ \/ word = <<0, 0>>
        \/ word = <<65535, 65535>>
        \/ Bits(word, 0, 2) # 3)
        => decoded = << >>

\* disassemble has returned None for a word that is an addi but for its low
\* two bits
C10_Witness ==
    /\ pc = "decoded"
    /\ Bits(word, 0, 2) = 1
    /\ retrieve_opcode(word) = 4
    /\ retrieve_funct3(word) = 0
    /\ retrieve_funct7(word) = 0
    /\ decoded = << >>

\* the format C11 gives each opcode field, "" for the opcodes it does not list
FormatOfOpcode(opcode) ==
    CASE opcode \in {0, 4, 6, 25, 28} -> "I"
      [] opcode = 8 -> "S"
      [] opcode = 24 -> "B"
      [] opcode \in {5, 13} -> "U"
      [] opcode = 27 -> "J"
      [] opcode \in {12, 14} -> "R"
      [] OTHER -> ""

\* C11: the variant of a decoded instruction is the one its opcode field
\* fixes (I for 00000, 00100, 00110, 11001, 11100; S for 01000; B for 11000;
\* U for 00101, 01101; J for 11011; R for 01100, 01110), and a word with any
\* other opcode decodes to None.
C11_VariantByOpcode ==
    (pc = "decoded" /\ decoded # << >>)
        => decoded[1].type = FormatOfOpcode(retrieve_opcode(word))

\* the funct3 of the mnemonic a word carries: formats U and J have none
MnemonicFunct3(inst) ==
    IF FormatOfOpcode(retrieve_opcode(inst)) \in {"U", "J"} THEN 0
    ELSE retrieve_funct3(inst)

\* the funct7 of the mnemonic a word carries: that of the word for the R
\* format and for the OP_IMM right shifts, 0 otherwise
MnemonicFunct7(inst) ==
    IF \/ FormatOfOpcode(retrieve_opcode(inst)) = "R"
       \/ (retrieve_opcode(inst) = 4 /\ retrieve_funct3(inst) = 5)
    THEN retrieve_funct7(inst) ELSE 0

\* the supported mnemonic a word carries, << >> when none
MnemonicOf(inst) ==
    from_bits(retrieve_opcode(inst), MnemonicFunct3(inst), MnemonicFunct7(inst))

\* the registers of a decoded record are the register fields of the word
RegistersFit(inst, d) ==
    /\ "rd" \in DOMAIN d => d.rd = ABIRegister(Bits(inst, 7, 5))
    /\ "rs1" \in DOMAIN d => d.rs1 = ABIRegister(Bits(inst, 15, 5))
    /\ "rs2" \in DOMAIN d => d.rs2 = ABIRegister(Bits(inst, 20, 5))

\* C12: every valid word that carries the opcode and funct3 of a supported
\* mnemonic (and its funct7, for the R format and for srli/srai) decodes to a
\* record with that mnemonic and with the register fields of the word,
\* whatever its immediate bits are.
C12_MnemonicByFields ==
    (/\ pc = "decoded"
     /\ Bits(word, 0, 2) = 3
     /\ word # <<65535, 65535>>
     /\ MnemonicOf(word) # << >>)
        => /\ decoded # << >>
           /\ decoded[1].name = MnemonicOf(word)[1]
           /\ RegistersFit(word, decoded[1])

\* an n-bit value read as a two's complement number
SignExtend(v, n) == IF v >= 2^(n - 1) THEN v - 2^n ELSE v

\* bits[31:20], and bits[31:25] ++ bits[11:7]
FieldI(inst) == Bits(inst, 20, 12)

FieldS(inst) == Bits(inst, 25, 7) * 32 + Bits(inst, 7, 5)

\* C13: the immediate of a decoded I-type or S-type instruction is its 12-bit
\* field read as a signed two's complement value: a field value v >= 2048
\* gives v - 4096.
C13_SignedImmediate ==
    (pc = "decoded" /\ decoded # << >>)
        => /\ decoded[1].type = "I" => decoded[1].imm = SignExtend(FieldI(word), 12)
           /\ decoded[1].type = "S" => decoded[1].imm = SignExtend(FieldS(word), 12)

\* bits[31] ++ bits[7] ++ bits[30:25] ++ bits[11:8] ++ 0
FieldB(inst) ==
    Bits(inst, 31, 1) * 4096 + Bits(inst, 7, 1) * 2048
        + Bits(inst, 25, 6) * 32 + Bits(inst, 8, 4) * 2

\* bits[31] ++ bits[19:12] ++ bits[20] ++ bits[30:21] ++ 0
FieldJ(inst) ==
    Bits(inst, 31, 1) * 1048576 + Bits(inst, 12, 8) * 4096
        + Bits(inst, 20, 1) * 2048 + Bits(inst, 21, 10) * 2

\* C14: the immediate of a decoded B-type instruction is its 13-bit field
\* sign-extended from 13 bits and that of a decoded J-type instruction its
\* 21-bit field sign-extended from 21 bits; convert_to_signed(0x7FF, 12) =
\* 2047, convert_to_signed(0x800, 12) = -2048, convert_to_signed(0x80000, 20)
\* = -524288.
C14_BranchImmediate ==
    /\ (pc = "decoded" /\ decoded # << >>)
          => /\ decoded[1].type = "B" => decoded[1].imm = SignExtend(FieldB(word), 13)
             /\ decoded[1].type = "J" => decoded[1].imm = SignExtend(FieldJ(word), 21)
    /\ convert_to_signed(2047, 12) = 2047
    /\ convert_to_signed(2048, 12) = -2048
    /\ convert_to_signed(524288, 20) = -524288

----------------------------------------------------------------------------
(* Further claims about the reduction loop *)

\* C15: reduction is idempotent: on the graph left when the loop stops none
\* of the four functions reduces, and running the whole loop again leaves the
\* vertex map (nested lists and section types included) and the edge list as
\* they are.
C15_Idempotent ==
    pc = "reduced" =>
        /\ ReductionPass(vertices, edges).rule = "none"
        /\ WhileProcessing(vertices, edges) = Graph(vertices, edges)

\* the loop has stopped after rewrites on a graph that keeps an edge
C15_Witness ==
    /\ pc = "reduced"
    /\ origin = "graph"
    /\ rewrites >= 1
    /\ edges # << >>


----------------------------------------------------------------------------
(* Claims about the emitter *)

RECURSIVE AllUnbranching(_)
\* the section and every section nested in it are Unbranching
AllUnbranching(section) ==
    /\ section.section_type = "Unbranching"
    /\ \A k \in 1..Len(section.abstract_sections) :
          AllUnbranching(section.abstract_sections[k])

\* the addresses of a sequence of instructions, in order
RECURSIVE AddressesOf(_)
AddressesOf(instructions) ==
    IF instructions = << >> THEN << >>
    ELSE <<Head(instructions).address>> \o AddressesOf(Tail(instructions))

RECURSIVE EveryInstruction(_, _)
RECURSIVE EveryInstructionOfAll(_, _)
\* every instruction of the block of a section, then those of its nested
\* sections in order
EveryInstruction(section, S) ==
    AddressesOf(S[section.concrete_section + 1].instructions)
        \o EveryInstructionOfAll(section.abstract_sections, S)

EveryInstructionOfAll(nested, S) ==
    IF nested = << >> THEN << >>
    ELSE EveryInstruction(Head(nested), S) \o EveryInstructionOfAll(Tail(nested), S)

RECURSIVE EveryInstructionOfVertices(_, _, _)
\* every instruction of the vertices of the graph in ascending id order
EveryInstructionOfVertices(V, ids, S) ==
    IF ids = << >> THEN << >>
    ELSE EveryInstruction(V[Head(ids)], S) \o EveryInstructionOfVertices(V, Tail(ids), S)

RECURSIVE InstructionLines(_)
\* the addresses of the instruction lines of an output, in order
InstructionLines(out) ==
    IF out = << >> THEN << >>
    ELSE (IF Head(out).line = "instruction" THEN <<Head(out).arg>> ELSE << >>)
            \o InstructionLines(Tail(out))

\* C16: for a reduced graph whose sections are all Unbranching the output
\* opens with `void main() {`, closes with `}`, and holds in between one line
\* per instruction of every block, the last instruction of each block
\* included, the vertices in ascending id order and nested sections after
\* their parent.
C16_EveryInstructionEmitted ==
    (pc = "done" /\ \A id \in DOMAIN vertices : AllUnbranching(vertices[id])) =>
        /\ Head(output).line = "main_open"
        /\ Last(output).line = "main_close"
        /\ InstructionLines(output) =
              EveryInstructionOfVertices(vertices, Ascending(DOMAIN vertices), sections)


\* the positions of the output holding `GOTO section d;`
GotoLines(out, d) ==
    {j \in 1..Len(out) : out[j].line = "goto" /\ out[j].arg = d}

\* the positions of the output holding an instruction of block s
BodyLines(out, S, s) ==
    {k \in 1..Len(out) : /\ out[k].line = "instruction"
                         /\ \E i \in 1..Len(S[s + 1].instructions) :
                               S[s + 1].instructions[i].address = out[k].arg}

\* C17: once a program's graph is reduced and converted, every edge (s, d)
\* left in the edge list has a line `GOTO section d;` in the output after
\* the lines of the body of s, and d is the id of a vertex still in the
\* reduced vertex map.
C17_GotoPerEdge ==
    pc = "done" =>
        \A i \in 1..Len(edges) :
            /\ edges[i][2] \in DOMAIN vertices
            /\ \E j \in GotoLines(output, edges[i][2]) :
                  \A k \in BodyLines(output, sections, edges[i][1]) : k < j

\* a converted program whose reduced graph keeps an edge out of a block
\* with more than one instruction
C17_Witness ==
    /\ pc = "done"
    /\ \E i \in 1..Len(edges) : BodyLines(output, sections, edges[i][1]) # {}


----------------------------------------------------------------------------
(* Claims about the edge list *)

\* C18: the edge list of the abstract graph is a set in every state: the
\* list build_abstract_graph makes of a program's blocks holds no pair twice,
\* and none occurs twice after any number of rewrites.
C18_EdgesAreSet ==
    pc \in {"reduce", "reduced", "done"} =>
        \A i, j \in 1..Len(edges) : edges[i] = edges[j] => i = j


\* C19: in every state of the reduction of a program's graph both endpoints
\* of every edge are ids of vertices in the vertex map: no edge keeps a
\* source or destination that a rewrite has absorbed.
C19_EndpointsAreVertices ==
    pc \in {"reduce", "reduced"} =>
        \A i \in 1..Len(edges) :
            edges[i][1] \in DOMAIN vertices /\ edges[i][2] \in DOMAIN vertices


----------------------------------------------------------------------------
(* Claim about the if-else rewrite *)

\* the destinations of the edges leaving v, in edge-list order
ChildrenOf(E, v) ==
    [k \in 1..NoOut(E, v) |-> Dst(E, get_edges(E, v, "Outgoing")[k])]

\* a and b each have their one incoming edge, and it comes from p
OnlyParent(E, p, a, b) ==
    /\ NoIn(E, a) = 1
    /\ NoIn(E, b) = 1
    /\ contains_edge(E, p, a)
    /\ contains_edge(E, p, b)

\* a and b both have no outgoing edge, or both exactly one, to the same vertex
SameExit(E, a, b) ==
    \/ NoOut(E, a) = 0 /\ NoOut(E, b) = 0
    \/ /\ NoOut(E, a) = 1
       /\ NoOut(E, b) = 1
       /\ ChildrenOf(E, a) = ChildrenOf(E, b)

\* p's nested list grows by a then b, p becomes IfElse, a and b leave the map
AbsorbedBoth(p, a, b) ==
    /\ DOMAIN vertices' = (DOMAIN vertices) \ {a, b}
    /\ vertices'[p].section_type = "IfElse"
    /\ vertices'[p].abstract_sections =
          vertices[p].abstract_sections \o <<vertices[a], vertices[b]>>

\* an iteration of the loop in which r_if_else reduced
IfElseStep ==
    /\ pc = "reduce"
    /\ passes' = passes + 1
    /\ lastRule' = "if_else"
    /\ pc' # "panic"

\* C20: r_if_else absorbs a and b into p only when p has exactly two
\* outgoing edges, to a and b, a and b each have exactly one incoming edge,
\* from p, and a and b both have no outgoing edge or both exactly one to the
\* same vertex; it then appends a then b to p's nested list and makes p an
\* IfElse.
C20_IfElseOnlyOnDiamond ==
    [][IfElseStep =>
          \E p \in DOMAIN vertices :
              \E a \in DOMAIN vertices, b \in DOMAIN vertices :
                  /\ ChildrenOf(edges, p) = <<a, b>>
                  /\ OnlyParent(edges, p, a, b)
                  /\ SameExit(edges, a, b)
                  /\ AbsorbedBoth(p, a, b)]_vars


----------------------------------------------------------------------------
(* Claims about the sequence, while and if-then rewrites *)

\* an iteration of the loop in which the named function reduced
RewriteStep(rule) ==
    /\ pc = "reduce"
    /\ passes' = passes + 1
    /\ lastRule' = rule
    /\ pc' # "panic"

\* c leaves the vertex map and is appended to p's nested list
AbsorbedOne(p, c) ==
    /\ DOMAIN vertices' = (DOMAIN vertices) \ {c}
    /\ vertices'[p].abstract_sections = Append(vertices[p].abstract_sections, vertices[c])

\* the edge p -> c is gone, no edge leaves c, and every edge that left c
\* now leaves p
EdgesMoved(p, c) ==
    /\ ~contains_edge(edges', p, c)
    /\ NoOut(edges', c) = 0
    /\ \A k \in 1..NoOut(edges, c) : contains_edge(edges', p, ChildrenOf(edges, c)[k])

\* C21: r_sequential_blocks absorbs c into p only when p has exactly one
\* outgoing edge, to c, c has exactly one incoming edge and at most one
\* outgoing edge; it appends c to p's nested list, removes the edge p -> c,
\* makes c's outgoing edge leave p, and leaves p's section type as it was.
C21_SequenceRewrite ==
    [][RewriteStep("sequence") =>
          \E p \in DOMAIN vertices :
              \E c \in DOMAIN vertices :
                  /\ ChildrenOf(edges, p) = <<c>>
                  /\ NoIn(edges, c) = 1
                  /\ NoOut(edges, c) <= 1
                  /\ AbsorbedOne(p, c)
                  /\ EdgesMoved(p, c)
                  /\ vertices'[p].section_type = vertices[p].section_type]_vars


\* q is a destination of p's two outgoing edges, its one incoming edge comes
\* from p and its one outgoing edge goes back to p
LoopBody(E, p, q) ==
    /\ NoOut(E, p) = 2
    /\ contains_edge(E, p, q)
    /\ NoIn(E, q) = 1
    /\ NoOut(E, q) = 1
    /\ contains_edge(E, q, p)

\* the successor of p that is not q
OtherSuccessor(E, p, q) ==
    IF ChildrenOf(E, p)[1] = q THEN ChildrenOf(E, p)[2] ELSE ChildrenOf(E, p)[1]

ThenBody(E, p, q, r) ==
    /\ ChildrenOf(E, p) \in {<<q, r>>, <<r, q>>}
    /\ NoIn(E, q) = 1
    /\ NoOut(E, q) <= 1
    /\ contains_edge(E, q, r)
    /\ r # p

\* every If vertex after the step has a nested section, and a vertex that
\* was an If and is one still has kept its first nested section
ThenBodyKept ==
    /\ \A v \in DOMAIN vertices' :
          vertices'[v].section_type = "If" => vertices'[v].abstract_sections # << >>
    /\ \A v \in (DOMAIN vertices) \cap (DOMAIN vertices') :
          (vertices[v].section_type = "If" /\ vertices'[v].section_type = "If") =>
              Head(vertices'[v].abstract_sections) = Head(vertices[v].abstract_sections)

\* C23: r_if_then absorbs q into p only when p has exactly two outgoing
\* edges, to q and r, q has exactly one incoming edge, at most one outgoing
\* edge and an edge to r, and r is not p; it makes p an If whose first nested
\* section is q, and from then on every If vertex has a non-empty nested list
\* whose first section stays that then-body.
C23_IfThenRewrite ==
    [][/\ RewriteStep("if_then") =>
             \E p \in DOMAIN vertices :
                 \E q \in DOMAIN vertices, r \in DOMAIN vertices :
                     /\ ThenBody(edges, p, q, r)
                     /\ AbsorbedOne(p, q)
                     /\ vertices'[p].section_type = "If"
                     /\ Head(vertices'[p].abstract_sections) = vertices[q]
       /\ pc' # "panic" => ThenBodyKept]_vars

\* an If vertex that has absorbed a further section after its then-body
C23_Witness ==
    /\ pc = "reduce"
    /\ \E p \in DOMAIN vertices :
          /\ vertices[p].section_type = "If"
          /\ Len(vertices[p].abstract_sections) >= 2


----------------------------------------------------------------------------
(* Claim about the order in which a pass tries the rewrites *)

\* the r_ functions in the order the loop calls them; "none" comes last
Priority(rule) ==
    CASE rule = "sequence" -> 1
      [] rule = "while"    -> 2
      [] rule = "if_then"  -> 3
      [] rule = "if_else"  -> 4
      [] OTHER             -> 5

\* the test of the named function succeeds at vertex a
MatchesAt(rule, E, a) ==
    CASE rule = "sequence" -> SequentialAt(E, a) # << >>
      [] rule = "while"    -> SingleWhileAt(E, a) # << >>
      [] rule = "if_then"  -> IfThenAt(E, a) # << >>
      [] rule = "if_else"  -> IfElseAt(E, a) # << >>
      [] OTHER             -> FALSE

RewriteRules == {"sequence", "while", "if_then", "if_else"}

\* an iteration of the loop that did not panic
PassStep ==
    /\ pc = "reduce"
    /\ passes' = passes + 1
    /\ pc' # "panic"

\* the vertex at position k of the traversal is the one the pass rewrote, by
\* the rule the pass applied
RewrittenAt(ord, k) ==
    /\ MatchesAt(lastRule', edges, ord[k])
    /\ ord[k] \in DOMAIN vertices'
    /\ vertices'[ord[k]].abstract_sections # vertices[ord[k]].abstract_sections

----------------------------------------------------------------------------
(* Further claims about generate_sections *)

\* the ids of the blocks whose range [start, end] holds the address
BlocksHolding(S, address) ==
    {S[j].id : j \in {i \in 1..Len(S) : S[i].start <= address /\ address <= S[i].end}}

\* the fallthrough successor of block k: the next block, when there is one
FallthroughOf(S, k) == IF k < Len(S) THEN <<S[k + 1].id>> ELSE << >>

\* the successor list C25 gives block k for the target address
ResolvedAs(S, k, target) ==
    CASE S[k].branch_type = "Conditional" ->
            IF BlocksHolding(S, target) = {}
            THEN S[k].branches = FallthroughOf(S, k)
            ELSE \E id \in BlocksHolding(S, target) :
                    S[k].branches = <<id>> \o FallthroughOf(S, k)
      [] S[k].branch_type = "Unconditional" ->
            IF BlocksHolding(S, target) = {}
            THEN S[k].branches = FallthroughOf(S, k)
            ELSE \E id \in BlocksHolding(S, target) : S[k].branches = <<id>>
      [] OTHER -> S[k].branches = FallthroughOf(S, k)

\* end_address + imm of the last instruction, as an integer
TargetOf(section) ==
    IF section.instructions = << >> THEN 0 ELSE section.end + LastImm(section)

\* C25: in the CFG generate_sections returns, a block without branch has the
\* next block as its only successor (none when it is the last), a conditional
\* block has the block holding end + imm first (if any) and then the next
\* block, and an unconditional block has the block holding end + imm, or the
\* next block when no block holds it.
C25_SuccessorLists ==
    \A k \in 1..Len(sections) : ResolvedAs(sections, k, TargetOf(sections[k]))


RECURSIVE InstructionsOf(_)
\* the instructions of the blocks, concatenated in order
InstructionsOf(S) ==
    IF S = << >> THEN << >> ELSE Head(S).instructions \o InstructionsOf(Tail(S))

\* block k has id k - 1, a B or J only as its last instruction, and the
\* branch type of its last instruction
BlockFits(S, k) ==
    /\ S[k].id = k - 1
    /\ \A i \in 1..(Len(S[k].instructions) - 1) : S[k].instructions[i].kind = "N"
    /\ S[k].branch_type = "Conditional" <=>
          (S[k].instructions # << >> /\ Last(S[k].instructions).kind = "B")
    /\ S[k].branch_type = "Unconditional" <=>
          (S[k].instructions # << >> /\ Last(S[k].instructions).kind = "J")

\* the blocks partition the instructions in address order
PartitionOf(S, instructions) ==
    /\ \A k \in 1..Len(S) : BlockFits(S, k)
    /\ InstructionsOf(S) = instructions

\* C26: make_blocks cuts the address-ordered instructions into blocks with
\* ids 0, 1, 2, ... in address order: a B or J is only ever the last
\* instruction of its block, a block is Conditional (Unconditional) exactly
\* when its last instruction is a B (a J), and the blocks' instructions
\* concatenated in id order are the input.
C26_BlocksPartition ==
    /\ PartitionOf(make_blocks(prog), prog)
    /\ pc \in {"cfg", "reduce", "reduced", "done"} /\ origin = "program" =>
          PartitionOf(sections, prog)

\* a CFG of three blocks or more, one of them with several instructions
C26_Witness ==
    /\ pc = "cfg"
    /\ Len(sections) >= 3
    /\ \E k \in 1..Len(sections) :
          /\ Len(sections[k].instructions) >= 2
          /\ sections[k].branch_type = "Conditional"


----------------------------------------------------------------------------
(* Claims about the vertex map during reduction *)

RECURSIVE Occurrences(_, _)
RECURSIVE OccurrencesIn(_, _)
\* how often block id occurs in a section and the sections nested in it
Occurrences(section, id) ==
    (IF section.concrete_section = id THEN 1 ELSE 0)
        + OccurrencesIn(section.abstract_sections, id)

OccurrencesIn(nested, id) ==
    IF nested = << >> THEN 0
    ELSE Occurrences(Head(nested), id) + OccurrencesIn(Tail(nested), id)

RECURSIVE OccurrencesOf(_, _, _)
\* how often block id occurs in the forest of the vertices ids of V
OccurrencesOf(V, ids, id) ==
    IF ids = << >> THEN 0
    ELSE Occurrences(V[Head(ids)], id) + OccurrencesOf(V, Tail(ids), id)

\* C27: in every state of the reduction of a CFG with blocks 0..n-1 each
\* block id occurs exactly once in the vertex map together with all nested
\* lists: an absorbed section is moved, neither copied nor lost.
C27_EachBlockOnce ==
    pc \in {"reduce", "reduced"} =>
        \A id \in 0..(initial - 1) :
            OccurrencesOf(vertices, Ascending(DOMAIN vertices), id) = 1

\* the loop has stopped with a section nested two levels deep
C27_Witness ==
    /\ pc = "reduced"
    /\ \E v \in DOMAIN vertices :
          \E k \in 1..Len(vertices[v].abstract_sections) :
              vertices[v].abstract_sections[k].abstract_sections # << >>


\* C28: every block make_blocks returns for a program that is not empty
\* holds at least one instruction, also when the program's last instruction
\* is a B or J, so that convert_section always finds a block's last
\* instruction.
C28_NoEmptyBlock ==
    /\ (origin = "program" /\ prog # << >>) =>
          \A k \in 1..Len(sections) : sections[k].instructions # << >>
    /\ panicked # "convert_section: instructions.values().last().unwrap()"


\* C29: vertex 0, the root every traversal starts from, is in the vertex map
\* in every state of the reduction of a program's graph: no rewrite absorbs
\* it into another vertex, also when a later block jumps back to block 0.
C29_RootStays ==
    pc \in {"reduce", "reduced"} => 0 \in DOMAIN vertices


\* C30: formatting any block of a CFG generate_sections returns succeeds: a
\* conditional block that has a successor has two, the first the block its
\* branch targets, printed as `true`, the second the next block, printed as
\* `false`.
C30_DisplaySucceeds ==
    (pc \in {"cfg", "reduce", "reduced", "done"} /\ origin = "program") =>
        \A k \in 1..Len(sections) :
            /\ fmt(sections[k]).ok
            /\ (sections[k].branch_type = "Conditional" /\ sections[k].branches # << >>) =>
                  /\ Len(sections[k].branches) = 2
                  /\ sections[k].branches[1] \in BlocksHolding(sections, TargetOf(sections[k]))
                  /\ fmt(sections[k]).jumps =
                        <<JumpLine("true", sections[k].branches[1]),
                          JumpLine("false", sections[k].id + 1)>>

====
